---- MODULE Spec2Model ----
(***************************************************************************)
(* Music recommendations service: the blending of offline, online and      *)
(* popular recommendations (app/service.py) behind the three request       *)
(* handlers of app/controller.py, and the online history cache they share. *)
(*                                                                         *)
(* Tables are sequences of rows in storage order, as the DataFrames are.   *)
(* Scores are positive integers here (floats in the data); only their      *)
(* order and their sums are used.                                          *)
(***************************************************************************)
EXTENDS Integers, Sequences, FiniteSets, TLC

\* ---------------------------------------------------------------- bounds
Users == {1, 2}
Tracks == {1, 2}
Ranks == {1, 2}
Scores == {1, 2}
\* rows per loaded table
MaxRows == 2
\* tracks in one reported online history
MaxHist == 1
\* largest requested number of recommendations (n is in 1..100 in the code)
MaxN == 4
\* largest n of a direct call of mix_recommendations
MaxMixN == 7

\* ---------------------------------------------------- program constants
\* controller.py:71  get_offline_recommendations(user_id, n=100)
OFFLINE_FETCH == 100
\* service.py:15  ONLINE_HISTORY_WEIGHT = 0.3, in tenths:
\* int(n * 0.3) = (n * 3) \div 10 for every n in 1..100
ONLINE_HISTORY_WEIGHT == 3

\* ---------------------------------------------------------------- helpers
Min(a, b) == IF a <= b THEN a ELSE b

Range(s) == {s[i] : i \in DOMAIN s}

SeqsUpTo(S, k) == UNION {[1..m -> S] : m \in 0..k}

\* DataFrame.head(n)
head(rows, n) == SubSeq(rows, 1, Min(n, Len(rows)))

TrackIds(rows) == {rows[i].track_id : i \in DOMAIN rows}

\* ------------------------------------------------------------ service.py
\* the orders of rows that are ascending by rank (rows of equal rank in
\* any order), each as the sequence of rows it gives
AscendingByRank(rows) ==
    {[i \in DOMAIN rows |-> rows[p[i]]] :
        p \in {q \in [DOMAIN rows -> DOMAIN rows] :
                 /\ \A i, j \in DOMAIN rows : i # j => q[i] # q[j]
                 /\ \A i, j \in DOMAIN rows : i < j => rows[q[i]].rank <= rows[q[j]].rank}}

\* nsmallest that forgets to order the rows by rank
nsmallest_unsorted(rows, n) == {head(rows, n)}

\* DataFrame.nsmallest(n, 'rank'): the n first rows by ascending rank. With
\* n >= len(rows), as here (n = 100), pandas sorts with sort_values and its
\* default unstable sort kind, so rows of equal rank come in any order: the
\* set of frames the call can return
nsmallest(rows, n) == {head(s, n) : s \in AscendingByRank(rows)}

\* the set of frames the call can return
get_offline_recommendations(table, user_id, n) ==
    LET user_recs == SelectSeq(table, LAMBDA r : r.user_id = user_id)
    IN  IF Len(user_recs) > 0 THEN nsmallest(user_recs, n) ELSE {<<>>}

\* get_popular_recommendations cutting one row short
get_popular_recommendations_short(table, n, exclude_tracks) ==
    LET popular == IF exclude_tracks # <<>>
                   THEN SelectSeq(table, LAMBDA r : r.track_id \notin Range(exclude_tracks))
                   ELSE table
    IN  head(popular, n - 1)

\* get_popular_recommendations truncating before it filters
get_popular_recommendations_cut_first(table, n, exclude_tracks) ==
    LET popular == head(table, n)
    IN  IF exclude_tracks # <<>>
        THEN SelectSeq(popular, LAMBDA r : r.track_id \notin Range(exclude_tracks))
        ELSE popular

get_popular_recommendations(table, n, exclude_tracks) ==
    LET popular == IF exclude_tracks # <<>>
                   THEN SelectSeq(table, LAMBDA r : r.track_id \notin Range(exclude_tracks))
                   ELSE table
    IN  head(popular, n)

RECURSIVE SumScores(_, _)
SumScores(rows, k) ==
    IF rows = <<>> THEN 0
    ELSE (IF Head(rows).similar_track_id = k THEN Head(rows).score ELSE 0)
         + SumScores(Tail(rows), k)

\* the aggregated rows left in any order, not sorted
DescendingByScore_unsorted(S) ==
    {s \in [1..Cardinality(S) -> S] : \A i, j \in DOMAIN s : i # j => s[i] # s[j]}

\* sort_values('score', ascending=False) with the default (unstable) sort
\* kind: every order of the rows that is descending by score
DescendingByScore(S) ==
    {s \in [1..Cardinality(S) -> S] :
        /\ \A i, j \in DOMAIN s : i # j => s[i] # s[j]
        /\ \A i, j \in DOMAIN s : i < j => s[i].score >= s[j].score}

\* the set of results the call can return (one per order of tied scores)
get_similar_tracks_for_history(table, track_ids, n, exclude_tracks) ==
    IF track_ids = <<>> THEN {<<>>}
    ELSE
    LET similar == SelectSeq(table, LAMBDA r : r.track_id \in Range(track_ids))
    IN  IF Len(similar) = 0 THEN {<<>>}
        ELSE
        LET all_exclude == Range(track_ids)
                           \cup (IF exclude_tracks # <<>> THEN Range(exclude_tracks) ELSE {})
            kept == SelectSeq(similar, LAMBDA r : r.similar_track_id \notin all_exclude)
            keys == {kept[i].similar_track_id : i \in DOMAIN kept}
            similar_agg == {[track_id |-> k, score |-> SumScores(kept, k)] : k \in keys}
        IN  {head(s, n) : s \in DescendingByScore(similar_agg)}

\* result.append(...) guarded by "track_id not in seen_tracks"; seen_tracks
\* always holds exactly the track ids of result
AddTrack(result, track_id) ==
    IF track_id \in TrackIds(result) THEN result
    ELSE Append(result, [track_id |-> track_id, rank |-> Len(result) + 1])

RECURSIVE AddOnline(_, _)
AddOnline(result, rows) ==
    IF rows = <<>> THEN result
    ELSE AddOnline(AddTrack(result, Head(rows).track_id), Tail(rows))

RECURSIVE AddOffline_no_break(_, _, _)
\* the offline loop without its "len(result) >= n" break
AddOffline_no_break(result, rows, n) ==
    IF rows = <<>> THEN result
    ELSE AddOffline_no_break(AddTrack(result, Head(rows).track_id), Tail(rows), n)

RECURSIVE AddOffline(_, _, _)
AddOffline(result, rows, n) ==
    IF rows = <<>> \/ Len(result) >= n THEN result
    ELSE AddOffline(AddTrack(result, Head(rows).track_id), Tail(rows), n)

\* mix_recommendations taking online rows without the n_online quota
mix_recommendations_no_quota(offline, online, n) ==
    AddOffline(AddOnline(<<>>, head(online, n)), offline, n)

mix_recommendations(offline, online, n) ==
    LET n_online == (n * ONLINE_HISTORY_WEIGHT) \div 10
    IN  AddOffline(AddOnline(<<>>, head(online, n_online)), offline, n)

\* --------------------------------------------------------- controller.py
\* the Recommendation objects built from the rows of a DataFrame
ToRecommendations(rows) ==
    [i \in DOMAIN rows |-> [track_id |-> rows[i].track_id, rank |-> rows[i].rank]]

RecommendationsResponse(user_id, recommendations, strategy) ==
    [user_id |-> user_id, recommendations |-> recommendations,
     strategy |-> strategy, total_count |-> Len(recommendations)]

\* service.online_history_cache.get(user_id, [])
CacheGet(cache, user_id) == IF user_id \in DOMAIN cache THEN cache[user_id] ELSE <<>>

\* get_recommendations mixing whenever there is a history, offline rows or not
Recommend_mix_on_history(user_id, n, offline, online_history, similar, popular) ==
    LET has_offline == Len(offline) > 0
        has_online == Len(online_history) > 0
    IN  IF has_online
        THEN {RecommendationsResponse(user_id, mix_recommendations(offline, online_recs, n),
                                      "mixed_online_offline") :
                online_recs \in get_similar_tracks_for_history(similar, online_history, n,
                                                               online_history)}
        ELSE IF has_offline
        THEN {RecommendationsResponse(user_id, ToRecommendations(head(offline, n)),
                                      "offline_only")}
        ELSE {RecommendationsResponse(user_id,
                  ToRecommendations(get_popular_recommendations(popular, n, online_history)),
                  "popular_fallback")}

\* get_recommendations from its locals on: the responses it can return for
\* the fetched offline rows and the history it read
Recommend(user_id, n, offline, online_history, similar, popular) ==
    LET has_offline == Len(offline) > 0
        has_online == Len(online_history) > 0
    IN  IF has_online /\ has_offline
        THEN {RecommendationsResponse(user_id, mix_recommendations(offline, online_recs, n),
                                      "mixed_online_offline") :
                online_recs \in get_similar_tracks_for_history(similar, online_history, n,
                                                               online_history)}
        ELSE IF has_offline
        THEN {RecommendationsResponse(user_id, ToRecommendations(head(offline, n)),
                                      "offline_only")}
        ELSE {RecommendationsResponse(user_id,
                  ToRecommendations(get_popular_recommendations(popular, n, online_history)),
                  "popular_fallback")}

\* ----------------------------------------------------------------- state
VARIABLES
    offline_recs,           \* service.offline_recs: rows (user_id, track_id, rank)
    similar_tracks,         \* service.similar_tracks: rows (track_id, similar_track_id, score)
    top_popular,            \* service.top_popular: rows (track_id, rank)
    online_history_cache,   \* service.online_history_cache: user_id -> track_ids
    request,                \* the request answered last
    response,               \* the response it got
    inflight,               \* a get_recommendations call in progress: its position and locals
    observed,               \* the histories the cache has held for its user since it began
    items,                  \* service.items: rows (track_id)
    startup                 \* the lifespan's load_data call: its phase and the read that
                            \* raises, if one does (and, while it is followed from the
                            \* start, the datasets the object storage holds)

vars == <<offline_recs, similar_tracks, top_popular, online_history_cache,
          request, response, inflight, observed, items, startup>>

tables == <<offline_recs, similar_tracks, top_popular, items>>

OfflineRows == [user_id : Users, track_id : Tracks, rank : Ranks]
SimilarRows == [track_id : Tracks, similar_track_id : Tracks, score : Scores]
PopularRows == [track_id : Tracks, rank : Ranks]
ItemRows == [track_id : Tracks]

Histories == SeqsUpTo(Tracks, MaxHist)
\* the requested n: the small ones, which truncate, and the largest, whose
\* online quota (n * 3) \div 10 is positive
NValues == {1, 2, MaxN}

\* the tables of a catalogue where user 1 has offline recommendations and
\* user 2 has none
BaseOffline == <<[user_id |-> 1, track_id |-> 1, rank |-> 1],
                 [user_id |-> 1, track_id |-> 2, rank |-> 2]>>
BaseSimilar == <<[track_id |-> 1, similar_track_id |-> 2, score |-> 2],
                 [track_id |-> 2, similar_track_id |-> 1, score |-> 1]>>
BasePopular == <<[track_id |-> 1, rank |-> 1], [track_id |-> 2, rank |-> 2]>>
BaseItems == <<[track_id |-> 1], [track_id |-> 2]>>

\* the four datasets of the object storage, by the name load_data prints
\* before reading each
DatasetsOf(recommendations, similar, popular, catalogue) ==
    [recommendations |-> recommendations, similar |-> similar,
     top_popular |-> popular, items |-> catalogue]

\* a startup whose load_data read all four datasets and returned
Started == [phase |-> "serving", fails |-> "none"]

\* what load_data can leave in the three tables: any rows in any order (one
\* table ranges over all its contents while the other two hold the base ones;
\* the similarity table ranges over one row less here, and over MaxRows rows
\* of three tracks where get_similar_tracks_for_history is followed alone)
LoadedTables ==
    \/ /\ offline_recs \in SeqsUpTo(OfflineRows, MaxRows)
       /\ similar_tracks = BaseSimilar
       /\ top_popular = BasePopular
    \/ /\ offline_recs = BaseOffline
       /\ similar_tracks \in SeqsUpTo(SimilarRows, MaxRows - 1)
       /\ top_popular = BasePopular
    \/ /\ offline_recs = BaseOffline
       /\ similar_tracks = BaseSimilar
       /\ top_popular \in SeqsUpTo(PopularRows, MaxRows)

Idle == [pc |-> "idle"]

Init ==
    /\ LoadedTables
    /\ items = BaseItems
    /\ startup = Started
    /\ online_history_cache = <<>>
    /\ request = [op |-> "none"]
    /\ response = [status |-> "none"]
    /\ inflight = Idle
    /\ observed = {}

\* the histories seen by the call in progress, after user_id's entry became h
Observe(user_id, h) ==
    IF inflight.pc # "idle" /\ inflight.user_id = user_id
    THEN observed \cup {h} ELSE observed

\* update_online_history appending the report to the stored history
update_online_history_appends(user_id, track_ids) ==
    /\ online_history_cache' =
          [u \in DOMAIN online_history_cache \cup {user_id} |->
              IF u = user_id THEN CacheGet(online_history_cache, u) \o track_ids
              ELSE online_history_cache[u]]
    /\ request' = [op |-> "update_online_history", user_id |-> user_id,
                   track_ids |-> track_ids]
    /\ response' = [status |-> "success", user_id |-> user_id,
                    tracks_count |-> Len(track_ids)]
    /\ observed' = Observe(user_id, track_ids)
    /\ UNCHANGED <<startup, tables, inflight>>

\* POST /online_history
update_online_history(user_id, track_ids) ==
    /\ online_history_cache' =
          [u \in DOMAIN online_history_cache \cup {user_id} |->
              IF u = user_id THEN track_ids ELSE online_history_cache[u]]
    /\ request' = [op |-> "update_online_history", user_id |-> user_id,
                   track_ids |-> track_ids]
    /\ response' = [status |-> "success", user_id |-> user_id,
                    tracks_count |-> Len(track_ids)]
    /\ observed' = Observe(user_id, track_ids)
    /\ UNCHANGED <<startup, tables, inflight>>

\* clear_online_history emptying the entry instead of deleting it
clear_online_history_keeps_entry(user_id) ==
    /\ request' = [op |-> "clear_online_history", user_id |-> user_id]
    /\ IF user_id \in DOMAIN online_history_cache
       THEN /\ online_history_cache' = [online_history_cache EXCEPT ![user_id] = <<>>]
            /\ response' = [status |-> "success"]
       ELSE /\ UNCHANGED online_history_cache
            /\ response' = [status |-> "not_found"]
    /\ observed' = Observe(user_id, <<>>)
    /\ UNCHANGED <<startup, tables, inflight>>

\* DELETE /online_history/{user_id}
clear_online_history(user_id) ==
    /\ request' = [op |-> "clear_online_history", user_id |-> user_id]
    /\ IF user_id \in DOMAIN online_history_cache
       THEN /\ online_history_cache' =
                  [u \in DOMAIN online_history_cache \ {user_id} |-> online_history_cache[u]]
            /\ response' = [status |-> "success"]
       ELSE /\ UNCHANGED online_history_cache
            /\ response' = [status |-> "not_found"]
    /\ observed' = Observe(user_id, <<>>)
    /\ UNCHANGED <<startup, tables, inflight>>

\* GET /recommendations/{user_id}?n=, the whole handler
get_recommendations(user_id, n) ==
    /\ inflight.pc = "idle"
    /\ \E offline \in get_offline_recommendations(offline_recs, user_id, OFFLINE_FETCH) :
          response' \in Recommend(user_id, n, offline,
                                  CacheGet(online_history_cache, user_id),
                                  similar_tracks, top_popular)
    /\ request' = [op |-> "get_recommendations", user_id |-> user_id, n |-> n]
    /\ UNCHANGED <<startup, tables, online_history_cache, inflight, observed>>

UpdateHistory == \E u \in Users, t \in Histories : update_online_history(u, t)
ClearHistory == \E u \in Users : clear_online_history(u)
GetRecommendations == \E u \in Users, n \in NValues : get_recommendations(u, n)

Next == UpdateHistory \/ ClearHistory \/ GetRecommendations

Spec == Init /\ [][Next]_vars

\* ------------------------------------- mix_recommendations on its own
\* the frames a caller can pass: offline rows (track_id, rank) and online
\* rows (track_id, score), any tracks in any order
MixTracks == {1, 2, 3}
MixOfflineRows == [user_id : {1}, track_id : MixTracks, rank : Ranks]
MixOnlineRows == [track_id : MixTracks, score : Scores]
MixNValues == 1..MaxMixN

\* the call get_recommendations makes for a user with offline rows t5, t6, t7
\* (ranks 1, 2, 3) and history [t5], when t5 is similar to t9 (score 5) and to
\* t6 (score 1), asked for n = 10
ExampleOffline == <<[user_id |-> 1, track_id |-> 5, rank |-> 1],
                    [user_id |-> 1, track_id |-> 6, rank |-> 2],
                    [user_id |-> 1, track_id |-> 7, rank |-> 3]>>
ExampleSimilar == <<[track_id |-> 5, similar_track_id |-> 9, score |-> 5],
                    [track_id |-> 5, similar_track_id |-> 6, score |-> 1]>>
ExampleHistory == <<5>>
ExampleCalls ==
    {[op |-> "call", offline |-> ExampleOffline, online |-> online, n |-> 10] :
        online \in get_similar_tracks_for_history(ExampleSimilar, ExampleHistory, 10,
                                                  ExampleHistory)}

\* a call mix_recommendations(offline, online, n) about to be made
InitMix ==
    /\ offline_recs = <<>>
    /\ similar_tracks = <<>>
    /\ top_popular = <<>>
    /\ items = <<>>
    /\ startup = Started
    /\ online_history_cache = <<>>
    /\ \/ \E offline \in SeqsUpTo(MixOfflineRows, MaxRows),
             online \in SeqsUpTo(MixOnlineRows, MaxRows),
             n \in MixNValues :
               request = [op |-> "call", offline |-> offline, online |-> online, n |-> n]
       \/ request \in ExampleCalls
    /\ response = [status |-> "none"]
    /\ inflight = Idle
    /\ observed = {}

\* the call is made and returns its list
MixRecommendations ==
    /\ request.op = "call"
    /\ request' = [request EXCEPT !.op = "mix_recommendations"]
    /\ response' = mix_recommendations(request.offline, request.online, request.n)
    /\ UNCHANGED <<startup, tables, online_history_cache, inflight, observed>>

NextMix == MixRecommendations

SpecMix == InitMix /\ [][NextMix]_vars

\* -------------------------------- get_recommendations among other requests
\* controller.py:71: the offline rows are fetched
rec_fetch_offline(user_id, n) ==
    /\ inflight.pc = "idle"
    /\ \E offline \in get_offline_recommendations(offline_recs, user_id, OFFLINE_FETCH) :
          inflight' = [pc |-> "line75", user_id |-> user_id, n |-> n, offline |-> offline]
    /\ observed' = {CacheGet(online_history_cache, user_id)}
    /\ UNCHANGED <<startup, tables, online_history_cache, request, response>>

\* controller.py:75: the history is read from the cache, once
rec_read_history ==
    /\ inflight.pc = "line75"
    /\ inflight' = [pc |-> "line79", user_id |-> inflight.user_id, n |-> inflight.n,
                    offline |-> inflight.offline,
                    online_history |-> CacheGet(online_history_cache, inflight.user_id)]
    /\ UNCHANGED <<startup, tables, online_history_cache, request, response, observed>>

\* rec_respond reading the cache again for the similarity seeds and exclusions
rec_respond_reads_again ==
    /\ inflight.pc = "line79"
    /\ LET again == CacheGet(online_history_cache, inflight.user_id)
       IN  response' \in
             IF Len(inflight.online_history) > 0 /\ Len(inflight.offline) > 0
             THEN {RecommendationsResponse(inflight.user_id,
                       mix_recommendations(inflight.offline, online_recs, inflight.n),
                       "mixed_online_offline") :
                     online_recs \in get_similar_tracks_for_history(similar_tracks, again,
                                                                    inflight.n, again)}
             ELSE Recommend(inflight.user_id, inflight.n, inflight.offline,
                            inflight.online_history, similar_tracks, top_popular)
    /\ request' = [op |-> "get_recommendations", user_id |-> inflight.user_id,
                   n |-> inflight.n]
    /\ inflight' = Idle
    /\ UNCHANGED <<startup, tables, online_history_cache, observed>>

\* controller.py:79-112: the strategy is chosen and the response built from
\* the locals
rec_respond ==
    /\ inflight.pc = "line79"
    /\ response' \in Recommend(inflight.user_id, inflight.n, inflight.offline,
                               inflight.online_history, similar_tracks, top_popular)
    /\ request' = [op |-> "get_recommendations", user_id |-> inflight.user_id,
                   n |-> inflight.n]
    /\ inflight' = Idle
    /\ UNCHANGED <<startup, tables, online_history_cache, observed>>

RecFetchOffline == \E u \in Users, n \in NValues : rec_fetch_offline(u, n)

NextConc == UpdateHistory \/ ClearHistory \/ RecFetchOffline \/ rec_read_history \/ rec_respond

\* the base catalogue: user 1 has offline rows, user 2 has none
InitConc ==
    /\ offline_recs = BaseOffline
    /\ similar_tracks = BaseSimilar
    /\ top_popular = BasePopular
    /\ items = BaseItems
    /\ startup = Started
    /\ online_history_cache = <<>>
    /\ request = [op |-> "none"]
    /\ response = [status |-> "none"]
    /\ inflight = Idle
    /\ observed = {}

SpecConc == InitConc /\ [][NextConc]_vars

\* ------------------------- get_similar_tracks_for_history on its own
SimTracks == {1, 2, 3}
SimRows == [track_id : SimTracks, similar_track_id : SimTracks, score : Scores]

\* the seed lists a caller passes: none, one track, two tracks
SeedLists == {<<>>} \cup {<<a>> : a \in SimTracks} \cup {<<a, b>> : a, b \in SimTracks}
\* the exclusion lists: none or one track
ExcludeLists == {<<>>} \cup {<<a>> : a \in SimTracks}

\* a call get_similar_tracks_for_history(track_ids, n, exclude_tracks) about
\* to be made on a loaded similar_tracks table
InitSimilar ==
    /\ offline_recs = <<>>
    /\ similar_tracks \in SeqsUpTo(SimRows, MaxRows)
    /\ top_popular = <<>>
    /\ items = <<>>
    /\ startup = Started
    /\ online_history_cache = <<>>
    /\ \E track_ids \in SeedLists, n \in NValues, exclude_tracks \in ExcludeLists :
          request = [op |-> "call", track_ids |-> track_ids, n |-> n,
                     exclude_tracks |-> exclude_tracks]
    /\ response = [status |-> "none"]
    /\ inflight = Idle
    /\ observed = {}

\* the call is made, the first time or again with the same arguments, and
\* returns its frame
SimilarTracksForHistory ==
    /\ request.op \in {"call", "get_similar_tracks_for_history"}
    /\ request' = [request EXCEPT !.op = "get_similar_tracks_for_history"]
    /\ response' \in get_similar_tracks_for_history(similar_tracks, request.track_ids,
                                                    request.n, request.exclude_tracks)
    /\ UNCHANGED <<startup, tables, online_history_cache, inflight, observed>>

NextSimilar == SimilarTracksForHistory

SpecSimilar == InitSimilar /\ [][NextSimilar]_vars

\* ------------------------------------------------ startup: load_data
\* the module globals before load_data has run (service.py:7-10)
None == "None"

\* where the try block of load_data can raise: creating the client, or one
\* of the four reads; "none" when it does not
FailPoints == {"none", "client", "recommendations", "similar", "top_popular", "items"}

\* pd.DataFrame(columns=[...]): a table with no rows
EmptyFrame == <<>>

\* load_data, called once by the lifespan before the first request: the try
\* block reads the four datasets in turn; an exception anywhere in it lands
\* in the one except branch, which assigns all four tables an empty frame
load_data ==
    /\ startup.phase = "loading"
    /\ LET source == startup.source
           raised == startup.fails # "none"
       IN  /\ offline_recs' = IF raised THEN EmptyFrame ELSE source.recommendations
           /\ similar_tracks' = IF raised THEN EmptyFrame ELSE source.similar
           /\ top_popular' = IF raised THEN EmptyFrame ELSE source.top_popular
           /\ items' = IF raised THEN EmptyFrame ELSE source.items
    /\ startup' = [startup EXCEPT !.phase = "serving"]
    /\ UNCHANGED <<online_history_cache, request, response, inflight, observed>>

\* the requests are served once the lifespan has run load_data
Serve ==
    /\ startup.phase = "serving"
    /\ (UpdateHistory \/ ClearHistory \/ GetRecommendations)

NextLoad == load_data \/ Serve

\* the process before its lifespan runs: the object storage holds the base
\* catalogue, and the load is about to succeed or to raise at one point
InitLoad ==
    /\ offline_recs = None
    /\ similar_tracks = None
    /\ top_popular = None
    /\ items = None
    /\ \E fails \in FailPoints :
          startup = [phase |-> "loading", fails |-> fails,
                     source |-> DatasetsOf(BaseOffline, BaseSimilar, BasePopular, BaseItems)]
    /\ online_history_cache = <<>>
    /\ request = [op |-> "none"]
    /\ response = [status |-> "none"]
    /\ inflight = Idle
    /\ observed = {}

SpecLoad == InitLoad /\ [][NextLoad]_vars

\* ------------------------------------------------- reading a Spec state
IsGet == request.op = "get_recommendations"

\* the rows stored for the user, in storage order
StoredFor(user_id) == SelectSeq(offline_recs, LAMBDA r : r.user_id = user_id)

HasOffline(user_id) == \E i \in DOMAIN offline_recs : offline_recs[i].user_id = user_id

\* the history of the user the last request was for
HistoryOfRequest == CacheGet(online_history_cache, request.user_id)

NoDuplicates(recs) == \A i, j \in DOMAIN recs : i # j => recs[i].track_id # recs[j].track_id

\* ------------------------------------------------------------------- C1
\* C1: a user with offline candidates and a non-empty history gets
\* strategy mixed_online_offline and a list holding no track of that history.
C1_ExclusionInMixed ==
    (IsGet /\ HasOffline(request.user_id) /\ HistoryOfRequest # <<>>)
    => /\ response.strategy = "mixed_online_offline"
       /\ TrackIds(response.recommendations) \cap Range(HistoryOfRequest) = {}

\* ------------------------------------------------------------------- C2
\* C2: the returned list never holds the same track_id twice, under any of
\* the three strategies.
C2_NoDuplicates ==
    IsGet => /\ response.strategy \in {"mixed_online_offline", "offline_only",
                                       "popular_fallback"}
             /\ NoDuplicates(response.recommendations)

\* ------------------------------------------------------------------- C3
\* C3: the strategy is decided by data availability alone: mixed exactly
\* when history and offline candidates are both non-empty, offline_only
\* exactly when only the offline candidates are, popular_fallback exactly
\* when there are no offline candidates; every user id gets a response.
C3_StrategySelection ==
    IsGet =>
        /\ response.strategy \in {"mixed_online_offline", "offline_only", "popular_fallback"}
        /\ response.strategy = "mixed_online_offline"
              <=> (HistoryOfRequest # <<>> /\ HasOffline(request.user_id))
        /\ response.strategy = "offline_only"
              <=> (HistoryOfRequest = <<>> /\ HasOffline(request.user_id))
        /\ response.strategy = "popular_fallback" <=> ~HasOffline(request.user_id)

\* an unknown user (no offline rows, no cache entry) was answered
C3_Witness ==
    /\ IsGet
    /\ ~HasOffline(request.user_id)
    /\ request.user_id \notin DOMAIN online_history_cache
    /\ offline_recs # <<>>
    /\ response.strategy = "popular_fallback"

\* ------------------------------------------------------------------- C4
\* the recommendations are rows picks[1], picks[2], ... of the stored rows
Picked(recs, rows, picks) ==
    /\ DOMAIN picks = DOMAIN recs
    /\ \A i \in DOMAIN recs :
          /\ picks[i] \in DOMAIN rows
          /\ recs[i].track_id = rows[picks[i]].track_id
          /\ recs[i].rank = rows[picks[i]].rank

\* recs are k rows of rows, first by ascending stored rank, ranks as stored:
\* no row left out has a smaller rank than a row returned
SmallestByRank(recs, rows, k) ==
    /\ Len(recs) = k
    /\ \E picks \in [1..k -> DOMAIN rows] :
          /\ Picked(recs, rows, picks)
          /\ \A i, j \in 1..k : i # j => picks[i] # picks[j]
          /\ \A i, j \in 1..k : i < j => rows[picks[i]].rank <= rows[picks[j]].rank
          /\ \A m \in DOMAIN rows :
                (\A i \in 1..k : picks[i] # m)
                => \A i \in 1..k : rows[picks[i]].rank <= rows[m].rank

\* the stored ranks of rows are 1, 2, ..., Len(rows), each once, in any order
RanksAreOneToM(rows) ==
    \A r \in 1..Len(rows) : Cardinality({i \in DOMAIN rows : rows[i].rank = r}) = 1

OfflineOnlyCase == IsGet /\ HasOffline(request.user_id) /\ HistoryOfRequest = <<>>

\* C4 as stated: with an offline entry and no history the strategy is
\* offline_only and the returned ranks are 1..k, in the stored order
\* truncated to n, k = min(n, number of stored candidates).
C4_RanksOneToK ==
    OfflineOnlyCase =>
        LET rows == StoredFor(request.user_id)
            k == Min(request.n, Len(rows))
            recs == response.recommendations
        IN  /\ response.strategy = "offline_only"
            /\ Len(recs) = k
            /\ \A i \in 1..k : recs[i].rank = i /\ recs[i].track_id = rows[i].track_id

\* C4 amended: with an offline entry and no history the strategy is
\* offline_only and the list is the user's stored rows in ascending order of
\* stored rank (rows of equal rank in any order) truncated to n, each with its
\* stored rank; the ranks are 1..k when the stored ranks of the user are 1..m.
C4_StoredRanksAscending ==
    OfflineOnlyCase =>
        LET rows == StoredFor(request.user_id)
            k == Min(request.n, Len(rows))
            recs == response.recommendations
        IN  /\ response.strategy = "offline_only"
            /\ SmallestByRank(recs, rows, k)
            /\ RanksAreOneToM(rows) => \A i \in 1..k : recs[i].rank = i

\* two rows stored out of rank order, truncated to the better one
C4_Witness ==
    /\ OfflineOnlyCase
    /\ LET rows == StoredFor(request.user_id)
       IN  /\ Len(rows) = 2
           /\ rows[1].rank > rows[2].rank
           /\ request.n = 1
           /\ response.recommendations =
                 <<[track_id |-> rows[2].track_id, rank |-> rows[2].rank]>>

\* ------------------------------------------------------------------- C5
\* C5: a user with no offline entry and no history gets strategy
\* popular_fallback, its own user_id back, and a non-empty list whenever the
\* popularity table is non-empty.
C5_FallbackNonEmpty ==
    (IsGet /\ ~HasOffline(request.user_id) /\ HistoryOfRequest = <<>>)
    => /\ response.strategy = "popular_fallback"
       /\ response.user_id = request.user_id
       /\ top_popular # <<>> => response.recommendations # <<>>

C5_Witness ==
    /\ IsGet /\ ~HasOffline(request.user_id) /\ HistoryOfRequest = <<>>
    /\ top_popular # <<>>
    /\ request.n = 1
    /\ Len(response.recommendations) = 1

\* ------------------------------------------------------------------- C6
\* C6: under popular_fallback the list is the popularity table in its order
\* without the rows whose track is in the user's history, truncated to n,
\* each row with the rank stored in the table.
C6_FallbackFiltering ==
    (IsGet /\ response.strategy = "popular_fallback") =>
        LET recs == response.recommendations
            heard == Range(HistoryOfRequest)
            unheard == {m \in DOMAIN top_popular : top_popular[m].track_id \notin heard}
            k == Min(request.n, Cardinality(unheard))
        IN  /\ Len(recs) = k
            /\ \E picks \in [1..k -> DOMAIN top_popular] :
                  /\ Picked(recs, top_popular, picks)
                  /\ \A i, j \in 1..k : i < j => picks[i] < picks[j]
                  /\ \A i \in 1..k : picks[i] \in unheard
                  /\ \A m \in unheard :
                        (\A i \in 1..k : picks[i] # m) => \A i \in 1..k : picks[i] < m

\* a heard track was dropped and the next row kept its stored rank
C6_Witness ==
    /\ IsGet /\ response.strategy = "popular_fallback"
    /\ Len(top_popular) = 2
    /\ top_popular[1].track_id \in Range(HistoryOfRequest)
    /\ top_popular[2].track_id \notin Range(HistoryOfRequest)
    /\ top_popular[2].rank = 2
    /\ response.recommendations = <<[track_id |-> top_popular[2].track_id, rank |-> 2]>>

\* ------------------------------------------------------------------- C8
\* the users with an entry in the cache
Entries == DOMAIN online_history_cache

\* C8: ClearHistory(u) reports success exactly when u has an entry at that
\* moment and leaves u without one, and reports not_found otherwise; an entry
\* exists from an UpdateHistory(u, tracks), with any track list, until the
\* next ClearHistory(u), and no other request creates or removes it.
C8_Step ==
    LET u == request'.user_id
    IN  /\ request'.op = "clear_online_history" =>
              /\ response'.status = (IF u \in Entries THEN "success" ELSE "not_found")
              /\ u \notin Entries'
        /\ request'.op = "update_online_history" => u \in Entries'
        /\ \A v \in Users :
              (v # u \/ request'.op = "get_recommendations")
              => (v \in Entries' <=> v \in Entries)

C8_ClearReportsExistence == [][C8_Step]_vars

\* a clear found the entry and removed it, while the entry of the other user
\* stayed
C8_Witness ==
    /\ request.op = "clear_online_history"
    /\ response.status = "success"
    /\ request.user_id \notin Entries
    /\ Entries # {}

\* ------------------------------------------------------------------- C9
\* C9: the history of a user is the track list of its latest UpdateHistory
\* not followed by a ClearHistory, and empty otherwise: an update replaces
\* it, a clear empties it, and requests for other users and
\* GetRecommendations leave it as it was.
C9_Step ==
    \A u \in Users :
        CacheGet(online_history_cache', u) =
            IF request'.op = "update_online_history" /\ request'.user_id = u
            THEN request'.track_ids
            ELSE IF request'.op = "clear_online_history" /\ request'.user_id = u
            THEN <<>>
            ELSE CacheGet(online_history_cache, u)

C9_HistoryReplaced == [][C9_Step]_vars

\* an update for one user while the other holds a different history
C9_Witness ==
    /\ request.op = "update_online_history"
    /\ Len(request.track_ids) = 1
    /\ CacheGet(online_history_cache, request.user_id) = request.track_ids
    /\ \E v \in Users \ {request.user_id} :
          /\ CacheGet(online_history_cache, v) # <<>>
          /\ CacheGet(online_history_cache, v) # request.track_ids

\* ------------------------------------------------------------------- C7
\* C7: mix_recommendations returns at most n entries, ranked 1, 2, ..., k in
\* output order whatever ranks the offline rows carry.
C7_MergeShape ==
    request.op = "mix_recommendations" =>
        /\ Len(response) <= request.n
        /\ \A i \in DOMAIN response : response[i].rank = i

\* an online pick was placed first and offline rows after it, one of them at
\* an output rank that is not its stored rank
C7_Witness ==
    /\ request.op = "mix_recommendations"
    /\ Len(response) = 3
    /\ Len(request.online) > 0
    /\ response[1].track_id = request.online[1].track_id
    /\ \E i \in DOMAIN request.offline :
          /\ request.offline[i].track_id = response[2].track_id
          /\ request.offline[i].rank # 2

\* ------------------------------------------------------------------ C10
\* C10: a GetRecommendations(u) running among UpdateHistory(u, .) and
\* ClearHistory(u) requests answers from one history value, which is one of
\* the complete histories the cache held for u while it ran: strategy, seeds
\* and exclusions all come from that one value.
C10_OneHistoryValue ==
    (IsGet /\ inflight.pc = "idle") =>
        \E h \in observed :
            \E offline \in get_offline_recommendations(offline_recs, request.user_id,
                                                       OFFLINE_FETCH) :
                response \in Recommend(request.user_id, request.n, offline, h,
                                       similar_tracks, top_popular)

\* the history was replaced while the request ran, and the response was built
\* from the old value: the new one gives another response
C10_Witness ==
    /\ IsGet /\ inflight.pc = "idle"
    /\ Cardinality(observed) >= 2
    /\ HistoryOfRequest \in observed
    /\ response.strategy = "mixed_online_offline"
    /\ \A offline \in get_offline_recommendations(offline_recs, request.user_id,
                                                  OFFLINE_FETCH) :
          response \notin Recommend(request.user_id, request.n, offline,
                                    HistoryOfRequest, similar_tracks, top_popular)

\* ------------------------------------------------------------------ C11
\* the table load_data left for a dataset
TableOf(key) ==
    CASE key = "recommendations" -> offline_recs
      [] key = "similar" -> similar_tracks
      [] key = "top_popular" -> top_popular
      [] key = "items" -> items

DatasetNames == {"recommendations", "similar", "top_popular", "items"}

\* every lookup on the tables as they are returns no rows
LookupsReturnEmpty ==
    \A u \in Users, h \in Histories, n \in NValues :
       /\ offline_recs = EmptyFrame
            => get_offline_recommendations(offline_recs, u, OFFLINE_FETCH) = {<<>>}
       /\ similar_tracks = EmptyFrame
            => get_similar_tracks_for_history(similar_tracks, h, n, h) = {<<>>}
       /\ top_popular = EmptyFrame
            => get_popular_recommendations(top_popular, n, h) = <<>>

\* C11: when the read of one of the four datasets fails at startup,
\* load_data still returns, that dataset alone is replaced by an empty table
\* while the others hold what the storage holds, every lookup on an emptied
\* table returns no rows, and a request is answered (by popular_fallback or
\* with an empty list) instead of raising.
C11_DegradedPerDataset ==
    (startup.phase = "serving" /\ startup.fails \in DatasetNames)
    => /\ \A key \in DatasetNames :
             TableOf(key) = IF key = startup.fails THEN EmptyFrame
                            ELSE startup.source[key]
       /\ LookupsReturnEmpty
       /\ IsGet => response.strategy \in {"mixed_online_offline", "offline_only",
                                          "popular_fallback"}

\* ------------------------------------------------------------------ C12
\* the p-th smallest member of a set of positions
NthOf(S, p) == CHOOSE i \in S : Cardinality({j \in S : j < i}) = p - 1

\* the positions of rows that hold a track for the first time
FirstOccurrences(rows) ==
    {i \in DOMAIN rows : \A j \in 1..(i - 1) : rows[j].track_id # rows[i].track_id}

IsExpand == request.op = "get_similar_tracks_for_history" /\ request.track_ids # <<>>

\* the rows of the seeds that relate them to track k
SeedRows(k) ==
    {i \in DOMAIN similar_tracks :
        /\ similar_tracks[i].track_id \in Range(request.track_ids)
        /\ similar_tracks[i].similar_track_id = k}

\* the related tracks outside the seeds and the exclusions
Qualifying ==
    {k \in SimTracks :
        /\ k \notin Range(request.track_ids) \cup Range(request.exclude_tracks)
        /\ SeedRows(k) # {}}

RECURSIVE ScoreOver(_)
\* the sum of the scores of a set of rows of similar_tracks
ScoreOver(I) ==
    IF I = {} THEN 0
    ELSE LET i == CHOOSE i \in I : TRUE
         IN  similar_tracks[i].score + ScoreOver(I \ {i})

\* each related track outside seeds and exclusions at most once, with its
\* summed score, by descending score, cut to the limit
ExpandContent ==
    /\ \A i \in DOMAIN response :
          /\ response[i].track_id \in Qualifying
          /\ response[i].score = ScoreOver(SeedRows(response[i].track_id))
    /\ NoDuplicates(response)
    /\ \A i, j \in DOMAIN response : i < j => response[i].score >= response[j].score
    /\ Len(response) = Min(request.n, Cardinality(Qualifying))
    /\ \A k \in Qualifying \ TrackIds(response) :
          \A i \in DOMAIN response : response[i].score >= ScoreOver(SeedRows(k))

\* ties in ascending track_id, in the list and at the cut
TiesByAscendingTrackId ==
    /\ \A i, j \in DOMAIN response :
          (i < j /\ response[i].score = response[j].score)
             => response[i].track_id < response[j].track_id
    /\ \A k \in Qualifying \ TrackIds(response) :
          \A i \in DOMAIN response :
             response[i].score = ScoreOver(SeedRows(k)) => response[i].track_id < k

\* the score of row i of the response is the summed score of no other
\* qualifying track
Untied(i) ==
    \A k \in Qualifying \ {response[i].track_id} :
       ScoreOver(SeedRows(k)) # response[i].score

\* the call made again returns the same scores position by position, and
\* the same track wherever the score is not tied
SameUpToTies ==
    (IsExpand /\ request' = request)
    => /\ Len(response') = Len(response)
       /\ \A i \in DOMAIN response :
             /\ response'[i].score = response[i].score
             /\ Untied(i) => response'[i].track_id = response[i].track_id

====
